---- MODULE Spec2Model ----
(***************************************************************************)
(* Blind rib tasting (src/rib_tasting.py): one Streamlit session and the   *)
(* Google Sheets ledger it writes to.                                      *)
(*                                                                         *)
(* A step of Spec is one interaction of the rater with the page: the       *)
(* script run the interaction triggers, together with the run that         *)
(* st.rerun() starts right after it.                                       *)
(*                                                                         *)
(* Python values are modelled as follows.                                  *)
(*  - A dict is a function.  The keys of the outer 'scores' dict are the   *)
(*    ints 0..len(RIB_SETS)-1: a key is modelled by its Python repr, so    *)
(*    that the int 0 ("0") and the str '0' ("'0'") are different keys, as  *)
(*    they are in Python.  Category ids and rib set labels are strs and    *)
(*    are modelled by their text.                                          *)
(*  - datetime.now().isoformat() is the reading of a clock that ticks at   *)
(*    every call (variable now).                                           *)
(*  - The floats of calculate_averages are exact fixed-point numbers: the  *)
(*    integer m stands for m / Scale.  Rounding of floats is not modelled. *)
(*  - 'scores': submission (line 201) stores a reference, not a copy:      *)
(*    draft_aliases holds the positions of the stored records whose        *)
(*    'scores' is the very object st.session_state.current_submission is   *)
(*    bound to, and a write into the draft (line 297) writes into them.    *)
(***************************************************************************)
EXTENDS Integers, Sequences, FiniteSets, TLC

VARIABLES
    scores,              \* st.session_state.scores
    current_view,        \* st.session_state.current_view
    user_name,           \* st.session_state.user_name
    current_submission,  \* st.session_state.current_submission
    selected_rib_set,    \* st.session_state.selected_rib_set
    connected,           \* sheets_service and spreadsheet_id are both set
    sheet,               \* rows of Scores!A2:H in the spreadsheet
    draft_aliases,       \* positions of scores sharing the draft object
    now,                 \* calls of datetime.now() so far
    notices,             \* st.success / st.error / st.warning of the last handler
    json_data,           \* the content behind "Download Session JSON"
    scores_list,         \* the argument of the last calculate_averages call
    averages,            \* what that call returned
    rankings,            \* the ranking built from it
    pc                   \* "session", or where SpecAgg's aggregation run is

vars == <<scores, current_view, user_name, current_submission, selected_rib_set,
          connected, sheet, draft_aliases, now, notices, json_data,
          scores_list, averages, rankings, pc>>

----------------------------------------------------------------------------
(* Bounds of the model *)

\* how many of the six RIB_SETS the model keeps
MaxRibSets == 2
\* how many of the four CATEGORIES the model keeps
MaxCategories == 2
\* calls of save_submission in one behaviour
MaxSubmissions == 2
\* length of the lists SpecAgg gives to calculate_averages
MaxRecords == 2

----------------------------------------------------------------------------
(* Configuration, lines 15-22 *)

CATEGORY_KEYS ==
    SubSeq(<<"tenderness", "flavor_sauce", "smoke_char", "overall">>, 1, MaxCategories)

CATEGORIES ==
    [c \in {CATEGORY_KEYS[k] : k \in 1..Len(CATEGORY_KEYS)} |->
        [name |-> CASE c = "tenderness" -> "Tenderness"
                    [] c = "flavor_sauce" -> "Flavor / Sauce"
                    [] c = "smoke_char" -> "Smoke / Char / Base Rub"
                    [] OTHER -> "Overall Taste",
         max |-> 5]]

RIB_SETS ==
    SubSeq(<<"Set A", "Set B", "Set C", "Set D", "Set E", "Set F">>, 1, MaxRibSets)

\* range(len(RIB_SETS))
RibSetRange == 0..(Len(RIB_SETS) - 1)

\* the repr of the int key i of a 'scores' dict
IntKey(i) == ToString(i)

\* the repr of the str key str(i): what a JSON object key parses to
StrKey(i) == "'" \o ToString(i) \o "'"

\* {}
EmptyDict == [k \in {} |-> 0]

\* Python's None, where a dict or a list is expected: the value with no key
\* and no item.  The dicts and lists it is told from (an aggregate, a
\* ranking, an export, the list a page aggregates) are never empty.
None == [k \in {} |-> 0]

\* d.get(k, default)
Get(d, k, default) == IF k \in DOMAIN d THEN d[k] ELSE default

\* d[k] = v on a dict
Put(d, k, v) == [x \in DOMAIN d \cup {k} |-> IF x = k THEN v ELSE d[x]]

\* {i: {} for i in range(len(RIB_SETS))}
EmptySubmission == [k \in {IntKey(i) : i \in RibSetRange} |-> EmptyDict]

RECURSIVE SumSeq(_)
SumSeq(s) == IF s = <<>> THEN 0 ELSE Head(s) + SumSeq(Tail(s))

\* the multiplier of calculate_total
TotalMultiplier == 5

\* variant: the means summed as they are, without the multiplier
calculate_total_unscaled(scores_dict) ==
    SumSeq([k \in 1..Len(CATEGORY_KEYS) |-> Get(scores_dict, CATEGORY_KEYS[k], 0)])

calculate_total(scores_dict) ==
    SumSeq([k \in 1..Len(CATEGORY_KEYS) |->
               Get(scores_dict, CATEGORY_KEYS[k], 0) * TotalMultiplier])

----------------------------------------------------------------------------
(* The score sliders of scoring_page, lines 288-297 *)

SliderMin == 1
SliderDefault == 3

\* variant: the sliders of the 0..10 profile
SliderRange_wide(cat_id) == 0..(2 * CATEGORIES[cat_id].max)

\* the values st.slider lets through for a category: min_value..max_value
\* (lines 292-293)
SliderRange(cat_id) == SliderMin..CATEGORIES[cat_id].max

\* The values the rater tries to give: for the slider of the first
\* category, the top of the configured range and the values just outside
\* either end of it.  The other sliders keep the value they show.
SliderAttempts(cat_id) ==
    IF cat_id = CATEGORY_KEYS[1]
    THEN {SliderMin - 1, CATEGORIES[cat_id].max, CATEGORIES[cat_id].max + 1}
    ELSE {}

\* value=current_score if current_score > 0 else 3
SliderValue(draft, rib_set_idx, cat_id) ==
    LET current_score == Get(draft[IntKey(rib_set_idx)], cat_id, 0)
    IN  IF current_score > 0 THEN current_score ELSE SliderDefault

\* One pass of the slider loop for the selected rib set: every category of
\* that set is written, with the value the rater moved it to (moved is a
\* dict cat_id -> value, {} when no slider moved) or else its shown value.
ScoreSliders(draft, rib_set_idx, moved) ==
    [draft EXCEPT ![IntKey(rib_set_idx)] =
        [c \in DOMAIN CATEGORIES |->
            IF c \in DOMAIN moved THEN moved[c]
            ELSE SliderValue(draft, rib_set_idx, c)]]

\* variant: any(...) over the rib sets in place of all(...)
any_complete(draft) ==
    \E i \in RibSetRange : \A cat \in DOMAIN CATEGORIES : cat \in DOMAIN draft[IntKey(i)]

\* lines 315-318
all_complete(draft) ==
    \A i \in RibSetRange : \A cat \in DOMAIN CATEGORIES : cat \in DOMAIN draft[IntKey(i)]

----------------------------------------------------------------------------
(* The Google Sheets ledger, lines 64-147 *)

\* the largest number a score cell can hold
CellMax == 9

\* How values().get() returns a number cell: as its text.
FormatCell(n) == ToString(n)

\* int(row[3 + i])
int(text) == CHOOSE n \in 0..CellMax : FormatCell(n) = text

\* The row save_to_sheets appends for one rib set, as the sheet keeps it
\* (valueInputOption RAW): lines 72-79.
SheetRow(submission, set_idx) ==
    <<submission.timestamp, submission.user_name, RIB_SETS[set_idx + 1]>>
    \o [k \in 1..Len(CATEGORY_KEYS) |->
           Get(submission.scores[IntKey(set_idx)], CATEGORY_KEYS[k], 0)]
    \o <<calculate_total(submission.scores[IntKey(set_idx)])>>

\* save_to_sheets when execute() raises at the append of row number
\* `appended` (counting from 0), or never when appended = len(RIB_SETS):
\* the rows before it are in the sheet.
save_to_sheets(rows, submission, appended) ==
    rows \o [k \in 1..appended |-> SheetRow(submission, k - 1)]

\* RIB_SETS.index(rib_set)
RibSetIndex(rib_set) == (CHOOSE k \in 1..Len(RIB_SETS) : RIB_SETS[k] = rib_set) - 1

\* the record of one row: lines 113-119
RowScores(row) ==
    [c \in DOMAIN CATEGORIES |->
        int(FormatCell(row[3 + (CHOOSE k \in 1..Len(CATEGORY_KEYS) : CATEGORY_KEYS[k] = c)]))]

\* The dict `submissions` after the rows, as the list of its values in
\* insertion order (line 132); a key is (user_name, timestamp).
RECURSIVE LoadRows(_, _)
LoadRows(rows, submissions) ==
    IF rows = <<>> THEN submissions
    ELSE LET row == Head(rows)
             pos == {p \in 1..Len(submissions) :
                        /\ submissions[p].user_name = row[2]
                        /\ submissions[p].timestamp = row[1]}
             withKey == IF pos = {}
                        THEN Append(submissions,
                                    [user_name |-> row[2], timestamp |-> row[1],
                                     scores |-> EmptyDict])
                        ELSE submissions
             p == CHOOSE q \in 1..Len(withKey) :
                     /\ withKey[q].user_name = row[2]
                     /\ withKey[q].timestamp = row[1]
         IN  IF Len(row) < 4 + Len(CATEGORY_KEYS)
             THEN LoadRows(Tail(rows), submissions)
             ELSE LoadRows(Tail(rows),
                           [withKey EXCEPT ![p].scores =
                               Put(@, IntKey(RibSetIndex(row[3])), RowScores(row))])

\* load_from_sheets; read_ok is FALSE when values().get() raises HttpError
load_from_sheets(rows, read_ok) ==
    IF ~read_ok THEN <<>> ELSE LoadRows(rows, <<>>)

----------------------------------------------------------------------------
(* calculate_averages, lines 209-223 *)

RECURSIVE Factorial(_)
Factorial(n) == IF n <= 1 THEN 1 ELSE n * Factorial(n - 1)

\* The integer m in `averages` stands for the number m / Scale; every list
\* length the model reaches divides Scale.
Scale == Factorial(IF MaxRecords > MaxSubmissions THEN MaxRecords ELSE MaxSubmissions)

\* a / b as a fixed-point number
TrueDiv(a, b) == (a * Scale) \div b

\* [s['scores'][i].get(cat_id, 0) for s in scores_list
\*      if i in s['scores'] and cat_id in s['scores'][i]]
RECURSIVE CollectScores(_, _, _)
CollectScores(list, i, cat_id) ==
    IF list = <<>> THEN <<>>
    ELSE LET s == Head(list)
             rest == CollectScores(Tail(list), i, cat_id)
         IN  IF IntKey(i) \in DOMAIN s.scores /\ cat_id \in DOMAIN s.scores[IntKey(i)]
             THEN <<Get(s.scores[IntKey(i)], cat_id, 0)>> \o rest
             ELSE rest

\* sum(scores) / len(scores) if scores else 0
MeanOrZero(collected) ==
    IF collected # <<>> THEN TrueDiv(SumSeq(collected), Len(collected)) ELSE 0

RibSetAverages(list, i) ==
    LET means == [c \in DOMAIN CATEGORIES |-> MeanOrZero(CollectScores(list, i, c))]
    IN  [k \in DOMAIN means \cup {"total"} |->
            IF k = "total" THEN calculate_total(means) ELSE means[k]]

\* variant: without the guard of lines 211-212
calculate_averages_unguarded(list) ==
    [rib_set \in {RIB_SETS[k] : k \in 1..Len(RIB_SETS)} |->
        RibSetAverages(list, RibSetIndex(rib_set))]

calculate_averages(list) ==
    IF list = <<>> THEN None
    ELSE [rib_set \in {RIB_SETS[k] : k \in 1..Len(RIB_SETS)} |->
             RibSetAverages(list, RibSetIndex(rib_set))]

----------------------------------------------------------------------------
(* The ranking, lines 359-363 and 460-464 *)

\* [(name, data['total']) for name, data in averages.items()]: a dict
\* iterates in insertion order, the order of RIB_SETS.
RankingItems(avgs) ==
    [k \in 1..Len(RIB_SETS) |-> <<RIB_SETS[k], avgs[RIB_SETS[k]].total>>]

\* variant: x put in front of the items with an equal key
RECURSIVE InsertBeforeEqual(_, _)
InsertBeforeEqual(sorted_items, x) ==
    IF sorted_items = <<>> THEN <<x>>
    ELSE IF Head(sorted_items)[2] > x[2]
         THEN <<Head(sorted_items)>> \o InsertBeforeEqual(Tail(sorted_items), x)
         ELSE <<x>> \o sorted_items

\* x put into a list sorted by x[2] descending, behind every item whose key
\* is not smaller: equal keys keep the order they arrive in.
RECURSIVE InsertDescending(_, _)
InsertDescending(sorted_items, x) ==
    IF sorted_items = <<>> THEN <<x>>
    ELSE IF Head(sorted_items)[2] >= x[2]
         THEN <<Head(sorted_items)>> \o InsertDescending(Tail(sorted_items), x)
         ELSE <<x>> \o sorted_items

RECURSIVE SortFrom(_, _)
SortFrom(done, items) ==
    IF items = <<>> THEN done
    ELSE SortFrom(InsertDescending(done, Head(items)), Tail(items))

\* sorted(items, key=lambda x: x[1], reverse=True): Python's sort is stable,
\* also with reverse=True
sorted_by_total_reverse(items) == SortFrom(<<>>, items)

build_rankings(avgs) ==
    IF avgs = None THEN None ELSE sorted_by_total_reverse(RankingItems(avgs))

----------------------------------------------------------------------------
(* The session export, lines 580-587 *)

\* a JSON string literal
JsonString(text) == "\"" \o text \o "\""

\* json.dumps of the int key of a 'scores' dict: the JSON key is str(key)
JsonKeyOfInt(i) == JsonString(ToString(i))

\* json.dumps(st.session_state.scores): a list of objects; the keys of a
\* JSON object are strings, whatever the dict's keys were.
json_dumps(store) ==
    [n \in 1..Len(store) |->
        [user_name |-> store[n].user_name,
         timestamp |-> store[n].timestamp,
         scores |->
            [j \in {JsonKeyOfInt(i) : i \in {x \in RibSetRange : IntKey(x) \in DOMAIN store[n].scores}} |->
                LET i == CHOOSE x \in RibSetRange : JsonKeyOfInt(x) = j
                    entry == store[n].scores[IntKey(i)]
                IN  [c \in {JsonString(k) : k \in DOMAIN entry} |->
                        entry[CHOOSE k \in DOMAIN entry : JsonString(k) = c]]]]]

\* json.loads of the export: every object key comes back as a str
json_loads(doc) ==
    [n \in 1..Len(doc) |->
        [user_name |-> doc[n].user_name,
         timestamp |-> doc[n].timestamp,
         scores |->
            [key \in {StrKey(i) : i \in {x \in RibSetRange : JsonKeyOfInt(x) \in DOMAIN doc[n].scores}} |->
                LET i == CHOOSE x \in RibSetRange : StrKey(x) = key
                    obj == doc[n].scores[JsonKeyOfInt(i)]
                IN  [c \in {k \in DOMAIN CATEGORIES : JsonString(k) \in DOMAIN obj} |->
                        obj[JsonString(c)]]]]]

\* the download offered by the sidebar: only when scores is not empty
SessionExport(store) == IF store # <<>> THEN json_dumps(store) ELSE None

----------------------------------------------------------------------------
(* The session: what one script run does, by the page it shows *)

\* the names typed into "Enter your name:"
Names == {"ann"}

\* What results_page (lines 347-363) and cumulative_page (lines 444-464)
\* compute when the run reaches them; read_ok is FALSE when the read of the
\* sheet raises HttpError.  The other pages aggregate nothing.
PageAggregate(view, store, conn, rows, read_ok) ==
    LET list == CASE view = "results" -> store
                  [] view = "cumulative" /\ conn -> load_from_sheets(rows, read_ok)
                  [] OTHER -> <<>>
        avgs == calculate_averages(list)
    IN  IF list = <<>>
        THEN [scores_list |-> None, averages |-> None, rankings |-> None]
        ELSE [scores_list |-> list, averages |-> avgs, rankings |-> build_rankings(avgs)]

PageNotices(view, store, conn, rows, read_ok) ==
    CASE view = "results" /\ store = <<>> -> <<"No submissions yet!">>
      [] view = "cumulative" /\ ~conn -> <<"Google Sheets not configured">>
      [] view = "cumulative" /\ conn /\ ~read_ok ->
            <<"Error loading from sheets", "No cumulative data found">>
      [] view = "cumulative" /\ conn /\ read_ok /\ rows = <<>> ->
            <<"No cumulative data found">>
      [] OTHER -> <<>>

\* the run of a page that is not the scoring page
ShowPage(view, store, conn, rows, read_ok, handler_notices) ==
    LET agg == PageAggregate(view, store, conn, rows, read_ok)
    IN  /\ scores_list' = agg.scores_list
        /\ averages' = agg.averages
        /\ rankings' = agg.rankings
        /\ notices' = handler_notices \o PageNotices(view, store, conn, rows, read_ok)

\* the scoring page aggregates nothing
ShowScoring(handler_notices) ==
    /\ scores_list' = None
    /\ averages' = None
    /\ rankings' = None
    /\ notices' = handler_notices

\* A write into the draft object (line 297): the stored records that share
\* the object see it.
WriteThrough(store, aliases, draft) ==
    [p \in 1..Len(store) |->
        IF p \in aliases THEN [store[p] EXCEPT !.scores = draft] ELSE store[p]]

\* the read of the sheet can fail only when there is a connection
ReadOutcomes == IF connected THEN BOOLEAN ELSE {TRUE}

\* save_submission, lines 198-203: the entry appended to the store
NewEntry(name, timestamp, submission) ==
    [user_name |-> name, timestamp |-> timestamp, scores |-> submission]

\* variant: one record for each rater, replaced by the rater's next submit
save_submission_upsert(store, name, timestamp, submission) ==
    IF \E p \in 1..Len(store) : store[p].user_name = name
    THEN [p \in 1..Len(store) |->
             IF store[p].user_name = name
             THEN NewEntry(name, timestamp, submission) ELSE store[p]]
    ELSE Append(store, NewEntry(name, timestamp, submission))

save_submission(store, name, timestamp, submission) ==
    Append(store, NewEntry(name, timestamp, submission))

\* line 322: current_submission is bound to a new dict, which no stored
\* record shares
RebindDraft(draft, aliases) ==
    [current_submission |-> EmptySubmission, draft_aliases |-> {}]

Init ==
    /\ scores = <<>>
    /\ current_view = "home"
    /\ user_name = ""
    /\ current_submission = EmptySubmission
    /\ selected_rib_set = 0
    /\ connected \in BOOLEAN
    /\ sheet = <<>>
    /\ draft_aliases = {}
    /\ now = 0
    /\ notices = <<>>
    /\ json_data = None
    /\ scores_list = None
    /\ averages = None
    /\ rankings = None
    /\ pc = "session"

\* home_page, lines 240-243, and the scoring page the rerun shows
StartTasting(name) ==
    /\ pc = "session"
    /\ current_view = "home"
    /\ name # ""
    /\ LET draft == ScoreSliders(current_submission, selected_rib_set, EmptyDict)
       IN  /\ current_submission' = draft
           /\ scores' = WriteThrough(scores, draft_aliases, draft)
    /\ user_name' = name
    /\ current_view' = "scoring"
    /\ json_data' = SessionExport(scores')
    /\ ShowScoring(<<>>)
    /\ UNCHANGED <<selected_rib_set, connected, sheet, draft_aliases, now, pc>>

\* the radio of scoring_page, lines 272-282, and the slider loop after it
SelectRibSet(rib_set_idx) ==
    /\ pc = "session"
    /\ current_view = "scoring"
    /\ rib_set_idx # selected_rib_set
    /\ selected_rib_set' = rib_set_idx
    /\ LET draft == ScoreSliders(current_submission, rib_set_idx, EmptyDict)
       IN  /\ current_submission' = draft
           /\ scores' = WriteThrough(scores, draft_aliases, draft)
    /\ json_data' = SessionExport(scores)
    /\ ShowScoring(<<>>)
    /\ UNCHANGED <<current_view, user_name, connected, sheet, draft_aliases, now, pc>>

\* The rater gives one slider a value: lines 288-297.  The widget takes
\* only the values of its range.
MoveSlider(cat_id, score) ==
    /\ pc = "session"
    /\ current_view = "scoring"
    /\ score \in SliderRange(cat_id)
    /\ score # SliderValue(current_submission, selected_rib_set, cat_id)
    /\ LET draft == ScoreSliders(current_submission, selected_rib_set,
                                 [c \in {cat_id} |-> score])
       IN  /\ current_submission' = draft
           /\ scores' = WriteThrough(scores, draft_aliases, draft)
    /\ json_data' = SessionExport(scores)
    /\ ShowScoring(<<>>)
    /\ UNCHANGED <<current_view, user_name, selected_rib_set, connected, sheet,
                   draft_aliases, now, pc>>

\* "Submit All Scores", lines 313-325, when save_submission returns: there
\* is no connection, or every append succeeds (error = "none"), or one
\* raises HttpError, which save_to_sheets catches (lines 91-93).
SubmitAllScores(appended, error) ==
    /\ pc = "session"
    /\ current_view = "scoring"
    /\ all_complete(current_submission)
    /\ now < MaxSubmissions
    /\ IF connected
       THEN \/ appended = Len(RIB_SETS) /\ error = "none"
            \/ appended < Len(RIB_SETS) /\ error = "HttpError"
       ELSE appended = 0 /\ error = "none"
    /\ now' = now + 1
    /\ scores' = save_submission(scores, user_name, now', current_submission)
    /\ sheet' = IF connected
                THEN save_to_sheets(sheet, NewEntry(user_name, now', current_submission),
                                    appended)
                ELSE sheet
    /\ LET rebound == RebindDraft(current_submission, draft_aliases \cup {Len(scores')})
       IN  /\ current_submission' = rebound.current_submission
           /\ draft_aliases' = rebound.draft_aliases
    /\ current_view' = "results"
    /\ json_data' = SessionExport(scores')
    /\ ShowPage("results", scores', connected, sheet', TRUE,
                (IF error = "HttpError" THEN <<"Error saving to sheets">> ELSE <<>>)
                \o <<"Scores submitted successfully!">>)
    /\ UNCHANGED <<user_name, selected_rib_set, connected, pc>>

\* "Submit All Scores" when an append raises an exception that is not an
\* HttpError (the transport fails: no route, a timeout, a refused token).
\* save_to_sheets catches HttpError only (line 91), so the exception leaves
\* save_submission (line 207) and scoring_page (line 321): the entry is in
\* the store (line 203), and lines 322-325 do not run.
SubmitAllScoresAborted(appended) ==
    /\ pc = "session"
    /\ current_view = "scoring"
    /\ all_complete(current_submission)
    /\ now < MaxSubmissions
    /\ connected
    /\ appended < Len(RIB_SETS)
    /\ now' = now + 1
    /\ scores' = save_submission(scores, user_name, now', current_submission)
    /\ sheet' = save_to_sheets(sheet, NewEntry(user_name, now', current_submission),
                               appended)
    /\ draft_aliases' = draft_aliases \cup {Len(scores')}
    /\ json_data' = SessionExport(scores)
    /\ ShowScoring(<<"Uncaught exception">>)
    /\ UNCHANGED <<current_view, user_name, current_submission, selected_rib_set,
                   connected, pc>>

\* "Back to Home" of the scoring, results and cumulative pages
BackToHome ==
    /\ pc = "session"
    /\ current_view \in {"scoring", "results", "cumulative"}
    /\ current_view' = "home"
    /\ json_data' = SessionExport(scores)
    /\ ShowPage("home", scores, connected, sheet, TRUE, <<>>)
    /\ UNCHANGED <<scores, user_name, current_submission, selected_rib_set,
                   connected, sheet, draft_aliases, now, pc>>

\* "View Results" of the home page, lines 246-248
ViewResults ==
    /\ pc = "session"
    /\ current_view = "home"
    /\ current_view' = "results"
    /\ json_data' = SessionExport(scores)
    /\ ShowPage("results", scores, connected, sheet, TRUE, <<>>)
    /\ UNCHANGED <<scores, user_name, current_submission, selected_rib_set,
                   connected, sheet, draft_aliases, now, pc>>

\* "View Cumulative Database" of the home and results pages
ViewCumulative(read_ok) ==
    /\ pc = "session"
    /\ current_view \in {"home", "results"}
    /\ read_ok \in ReadOutcomes
    /\ current_view' = "cumulative"
    /\ json_data' = SessionExport(scores)
    /\ ShowPage("cumulative", scores, connected, sheet, read_ok, <<>>)
    /\ UNCHANGED <<scores, user_name, current_submission, selected_rib_set,
                   connected, sheet, draft_aliases, now, pc>>

\* The admin buttons of cumulative_page are drawn only below a non-empty
\* load (lines 448-450).
AdminControlsShown ==
    /\ current_view = "cumulative"
    /\ connected
    /\ scores_list # None

\* Whether a request to clear is waiting for its confirmation.  No key of
\* st.session_state records one (lines 24-38), and st.button is True only
\* in the run of its own click (lines 525 and 572): no run ever starts with
\* a request pending.
ClearRequestPending == FALSE

\* "Refresh Data", lines 531-532
RefreshData(read_ok) ==
    /\ pc = "session"
    /\ AdminControlsShown
    /\ sheet # <<>>
    /\ read_ok \in ReadOutcomes
    /\ json_data' = SessionExport(scores)
    /\ ShowPage("cumulative", scores, connected, sheet, read_ok, <<>>)
    /\ UNCHANGED <<scores, current_view, user_name, current_submission,
                   selected_rib_set, connected, sheet, draft_aliases, now, pc>>

\* clear_sheets_data, lines 137-147: TRUE and an empty sheet, or FALSE when
\* the clear raises HttpError
clear_sheets_data(rows, clear_ok) ==
    [rows |-> IF clear_ok THEN <<>> ELSE rows, result |-> clear_ok]

\* "Clear All Database Data", lines 524-528: the run of the click loads the
\* sheet first, and reaches the button only with a non-empty load.
ClearAllDatabaseData(clear_ok, read_ok) ==
    /\ pc = "session"
    /\ AdminControlsShown
    /\ sheet # <<>>
    /\ read_ok \in ReadOutcomes
    /\ LET cleared == clear_sheets_data(sheet, clear_ok)
       IN  /\ sheet' = cleared.rows
           /\ IF cleared.result
              THEN ShowPage("cumulative", scores, connected, sheet', read_ok,
                            <<"Database cleared successfully!">>)
              ELSE ShowPage("cumulative", scores, connected, sheet, TRUE,
                            <<"Error clearing sheets">>)
    /\ json_data' = SessionExport(scores)
    /\ UNCHANGED <<scores, current_view, user_name, current_submission,
                   selected_rib_set, connected, draft_aliases, now, pc>>

\* "Reset Session Data", lines 572-576, and the page the rerun shows.  On
\* the scoring page the sliders of the selected rib set are drawn again and
\* written into the new draft: with the values they held (keep_widgets:
\* the widget state survived the interrupted run) or with their default.
ResetSessionData(keep_widgets, read_ok) ==
    /\ pc = "session"
    /\ read_ok \in (IF current_view = "cumulative" THEN ReadOutcomes ELSE {TRUE})
    /\ keep_widgets \in (IF current_view = "scoring" THEN BOOLEAN ELSE {FALSE})
    /\ scores' = <<>>
    /\ draft_aliases' = {}
    /\ current_submission' =
          IF current_view = "scoring"
          THEN ScoreSliders(EmptySubmission, selected_rib_set,
                            IF keep_widgets
                            THEN current_submission[IntKey(selected_rib_set)]
                            ELSE EmptyDict)
          ELSE EmptySubmission
    /\ json_data' = SessionExport(scores')
    /\ IF current_view = "scoring"
       THEN ShowScoring(<<"Session data reset!">>)
       ELSE ShowPage(current_view, scores', connected, sheet, read_ok,
                     <<"Session data reset!">>)
    /\ UNCHANGED <<current_view, user_name, selected_rib_set, connected, sheet, now, pc>>

Next ==
    \/ \E name \in Names : StartTasting(name)
    \/ \E rib_set_idx \in RibSetRange : SelectRibSet(rib_set_idx)
    \/ \E cat_id \in DOMAIN CATEGORIES : \E score \in SliderAttempts(cat_id) :
          MoveSlider(cat_id, score)
    \/ \E appended \in 0..Len(RIB_SETS) : \E error \in {"none", "HttpError"} :
          SubmitAllScores(appended, error)
    \/ \E appended \in 0..Len(RIB_SETS) : SubmitAllScoresAborted(appended)
    \/ BackToHome
    \/ ViewResults
    \/ \E read_ok \in BOOLEAN : ViewCumulative(read_ok)
    \/ \E read_ok \in BOOLEAN : RefreshData(read_ok)
    \/ \E clear_ok \in BOOLEAN : \E read_ok \in BOOLEAN :
          ClearAllDatabaseData(clear_ok, read_ok)
    \/ \E keep_widgets \in BOOLEAN : \E read_ok \in BOOLEAN :
          ResetSessionData(keep_widgets, read_ok)

Spec == Init /\ [][Next]_vars

----------------------------------------------------------------------------
(* calculate_averages and the ranking on lists of records of every shape   *)
(* the two callers can pass: a record of the session store has every rib   *)
(* set, a record loaded from the sheet has the rib sets whose rows are in  *)
(* the sheet (each with every category).                                   *)

\* the entries of the sample records, one for each of these scores of the
\* first category; the category after one scored n is scored n + 1, and 1
\* after the maximum
SampleFirstScores == {1, 5}

SampleEntry(first) ==
    [c \in DOMAIN CATEGORIES |->
        LET k == CHOOSE j \in 1..Len(CATEGORY_KEYS) : CATEGORY_KEYS[j] = c
        IN  ((first + k - 2) % CATEGORIES[c].max) + 1]

\* the 'scores' dicts of the sample records
SampleScores ==
    UNION {[{IntKey(i) : i \in present} -> {SampleEntry(f) : f \in SampleFirstScores}] :
              present \in SUBSET RibSetRange}

SampleLists ==
    UNION {{[n \in 1..len |-> [user_name |-> "ann", timestamp |-> n, scores |-> pick[n]]] :
               pick \in [1..len -> SampleScores]} : len \in 0..MaxRecords}

InitAgg ==
    /\ scores = <<>>
    /\ current_view = "home"
    /\ user_name = ""
    /\ current_submission = EmptySubmission
    /\ selected_rib_set = 0
    /\ connected = FALSE
    /\ sheet = <<>>
    /\ draft_aliases = {}
    /\ now = 0
    /\ notices = <<>>
    /\ json_data = None
    /\ scores_list \in SampleLists
    /\ averages = None
    /\ rankings = None
    /\ pc = "start"

CallCalculateAverages ==
    /\ pc = "start"
    /\ averages' = calculate_averages(scores_list)
    /\ pc' = "averaged"
    /\ UNCHANGED <<scores, current_view, user_name, current_submission,
                   selected_rib_set, connected, sheet, draft_aliases, now, notices,
                   json_data, scores_list, rankings>>

\* the callers rank what calculate_averages returned for a list that is
\* not empty (lines 347-349 and 448-450 return before)
BuildRankings ==
    /\ pc = "averaged"
    /\ scores_list # <<>>
    /\ rankings' = build_rankings(averages)
    /\ pc' = "ranked"
    /\ UNCHANGED <<scores, current_view, user_name, current_submission,
                   selected_rib_set, connected, sheet, draft_aliases, now, notices,
                   json_data, scores_list, averages>>

NextAgg ==
    \/ CallCalculateAverages
    \/ BuildRankings

SpecAgg == InitAgg /\ [][NextAgg]_vars

----------------------------------------------------------------------------
(* The properties checked *)

\* a 'scores' dict with an entry for every rib set
HasEveryRibSet(scores_dict) ==
    \A i \in RibSetRange : IntKey(i) \in DOMAIN scores_dict

\* ... and in each entry a score for every category
IsCompleteScores(scores_dict) ==
    /\ HasEveryRibSet(scores_dict)
    /\ \A i \in RibSetRange : \A cat \in DOMAIN CATEGORIES :
          cat \in DOMAIN scores_dict[IntKey(i)]

\* the texts of a list of notices
NoticeSet == {notices[n] : n \in 1..Len(notices)}

\* C1: every record of st.session_state.scores has an entry for every rib
\* set and in it a score for every category: no partial record is stored.
C1_StoredRecordsComplete ==
    \A p \in 1..Len(scores) : IsCompleteScores(scores[p].scores)

\* two records are stored while the draft in progress is still partial
C1_Witness ==
    /\ Len(scores) = 2
    /\ current_view = "scoring"
    /\ ~all_complete(current_submission)

\* C2 (as claimed): every record load_from_sheets returns, at any moment,
\* has an entry for every rib set.
C2_LedgerSnapshotComplete ==
    \A n \in 1..Len(load_from_sheets(sheet, TRUE)) :
        HasEveryRibSet(load_from_sheets(sheet, TRUE)[n].scores)

\* C3: a submit (the step that reads the clock) lengthens the store by
\* exactly the record submitted, placed last, and leaves the records before
\* it as they were, whatever the write to the ledger does; the records of
\* the store are in the order of their submission, each once.
C3_SubmitAppendsOneRecord ==
    [][/\ now' # now =>
            scores' = Append(scores, [user_name |-> user_name,
                                      timestamp |-> now',
                                      scores |-> current_submission])
       /\ \A p, q \in 1..Len(scores') :
            p < q => scores'[p].timestamp < scores'[q].timestamp]_vars

\* the same rater has submitted twice; the write of the second record has
\* just failed, and no row of either record is in the ledger
C3_Witness ==
    /\ Len(scores) = 2
    /\ scores[1].user_name = scores[2].user_name
    /\ connected
    /\ sheet = <<>>
    /\ "Error saving to sheets" \in NoticeSet

\* C4 (as claimed): when the write to the ledger failed during a submit,
\* the handler does not report the submission as succeeded.
C4_WriteFailureNotReportedAsSuccess ==
    "Error saving to sheets" \in NoticeSet =>
        "Scores submitted successfully!" \notin NoticeSet

\* the aggregate with a mean of 0 for every category and a total of 0
ZeroAggregate ==
    [rib_set \in {RIB_SETS[k] : k \in 1..Len(RIB_SETS)} |->
        [k \in DOMAIN CATEGORIES \cup {"total"} |-> 0]]

RecordsScoring(list, i, cat) ==
    {n \in 1..Len(list) :
        /\ IntKey(i) \in DOMAIN list[n].scores
        /\ cat \in DOMAIN list[n].scores[IntKey(i)]}

RECURSIVE SumOver(_, _, _, _)
SumOver(list, i, cat, ns) ==
    IF ns = {} THEN 0
    ELSE LET n == CHOOSE x \in ns : TRUE
         IN  list[n].scores[IntKey(i)][cat] + SumOver(list, i, cat, ns \ {n})

RECURSIVE SumOfMeans(_, _)
SumOfMeans(rib_set_averages, cats) ==
    IF cats = {} THEN 0
    ELSE LET c == CHOOSE x \in cats : TRUE
         IN  rib_set_averages[c] + SumOfMeans(rib_set_averages, cats \ {c})

\* C6: for a list that is not empty, the mean of (rib set, category) is the
\* arithmetic mean of the scores of exactly the records that hold one, or 0
\* when none does, and the total of the rib set is 5 times the sum of its
\* means.  (mean * count = sum, in the fixed-point of `averages`.)
C6_MeansAndScaledTotal ==
    (pc # "start" /\ pc # "session" /\ scores_list # <<>>) =>
        \A i \in RibSetRange :
            LET result == averages[RIB_SETS[i + 1]]
            IN  /\ \A cat \in DOMAIN CATEGORIES :
                      LET ns == RecordsScoring(scores_list, i, cat)
                      IN  IF ns = {} THEN result[cat] = 0
                          ELSE result[cat] * Cardinality(ns)
                                  = Scale * SumOver(scores_list, i, cat, ns)
                /\ result["total"] = 5 * SumOfMeans(result, DOMAIN CATEGORIES)

\* an aggregate with a rib set no record scores, a mean that is no integer,
\* and a mean of exactly 3 that adds 15 to its total
C6_Witness ==
    /\ pc = "averaged"
    /\ Len(scores_list) = 2
    /\ \E i \in RibSetRange : \A cat \in DOMAIN CATEGORIES :
          RecordsScoring(scores_list, i, cat) = {}
    /\ \E i \in RibSetRange : \E cat \in DOMAIN CATEGORIES :
          averages[RIB_SETS[i + 1]][cat] % Scale # 0
    /\ \E i \in RibSetRange : \E cat \in DOMAIN CATEGORIES :
          /\ averages[RIB_SETS[i + 1]][cat] = 3 * Scale
          /\ averages[RIB_SETS[i + 1]]["total"]
                = 15 * Scale + 5 * SumOfMeans(averages[RIB_SETS[i + 1]],
                                              DOMAIN CATEGORIES \ {cat})

\* the position of a rib set in the configured list
ConfiguredPosition(rib_set) == CHOOSE k \in 1..Len(RIB_SETS) : RIB_SETS[k] = rib_set

\* C7: the ranking lists every rib set exactly once, with its total, by
\* total descending, and rib sets with equal totals in the order of RIB_SETS.
C7_RankingStableDescending ==
    pc = "ranked" =>
        /\ Len(rankings) = Len(RIB_SETS)
        /\ \A k \in 1..Len(RIB_SETS) :
              Cardinality({r \in 1..Len(rankings) : rankings[r][1] = RIB_SETS[k]}) = 1
        /\ \A r \in 1..Len(rankings) :
              rankings[r][2] = averages[rankings[r][1]]["total"]
        /\ \A r1, r2 \in 1..Len(rankings) :
              r1 < r2 =>
                 \/ rankings[r1][2] > rankings[r2][2]
                 \/ /\ rankings[r1][2] = rankings[r2][2]
                    /\ ConfiguredPosition(rankings[r1][1])
                          < ConfiguredPosition(rankings[r2][1])

\* a ranking with two rib sets tied on a total that is not 0
C7_Witness ==
    /\ pc = "ranked"
    /\ \E r1, r2 \in 1..Len(rankings) :
          r1 # r2 /\ rankings[r1][2] = rankings[r2][2] /\ rankings[r1][2] > 0

\* C8 (as claimed): the export of the store parses back to records equal to
\* the originals, keys of 'scores' included, which aggregate as they do.
C8_ExportRoundTrips ==
    (scores # <<>> /\ json_data = json_dumps(scores)) =>
        /\ json_loads(json_data) = scores
        /\ calculate_averages(json_loads(json_data)) = calculate_averages(scores)

\* C9: every score of the draft and of every stored record is an integer of
\* 1..max of its category (1..5); a value outside the range is not taken.
C9_ScoresWithinRange ==
    /\ \A i \in RibSetRange : \A cat \in DOMAIN current_submission[IntKey(i)] :
          current_submission[IntKey(i)][cat] \in 1..CATEGORIES[cat].max
    /\ \A p \in 1..Len(scores) : \A key \in DOMAIN scores[p].scores :
          \A cat \in DOMAIN scores[p].scores[key] :
              scores[p].scores[key][cat] \in 1..CATEGORIES[cat].max
    /\ \A cat \in DOMAIN CATEGORIES : CATEGORIES[cat].max = 5

\* the rater has moved a slider to the top of the range, in a stored record
\* and in the draft, next to sliders left at their default
C9_Witness ==
    /\ \E p \in 1..Len(scores) : \E i \in RibSetRange :
          /\ scores[p].scores[IntKey(i)][CATEGORY_KEYS[1]] = 5
          /\ scores[p].scores[IntKey(i)][CATEGORY_KEYS[2]] = 3
    /\ \E i \in RibSetRange :
          /\ DOMAIN current_submission[IntKey(i)] = DOMAIN CATEGORIES
          /\ current_submission[IntKey(i)][CATEGORY_KEYS[1]] = 5

\* C10 (as claimed): a step that is not the purge ("Reset Session Data")
\* leaves every stored record as it is: no record is changed or removed.
C10_StoredRecordsNeverChange ==
    [][\/ "Session data reset!" \in {notices'[n] : n \in 1..Len(notices')}
       \/ /\ Len(scores') >= Len(scores)
          /\ SubSeq(scores', 1, Len(scores)) = scores]_vars

\* C11 (as claimed): a step removes records from the sheet or from
\* st.session_state.scores only when a request to clear was already pending
\* before it, so that the step is the separate confirmation; the click that
\* makes the request removes nothing.
C11_PurgeNeedsConfirmation ==
    [][(Len(sheet') < Len(sheet) \/ Len(scores') < Len(scores))
          => ClearRequestPending]_vars

\* the keys (user_name, timestamp) of the records of a list
RecordKeys(list) == {<<list[n].user_name, list[n].timestamp>> : n \in 1..Len(list)}

\* C12 (as claimed): the list a page aggregates holds, once each, the keys
\* (user_name, timestamp) of the records of st.session_state.scores and of
\* the records in the sheet, those in only one of the two included.
C12_AggregatesUnionOfViews ==
    scores_list # None =>
        /\ RecordKeys(scores_list)
              = RecordKeys(scores) \cup RecordKeys(load_from_sheets(sheet, TRUE))
        /\ Cardinality(RecordKeys(scores_list)) = Len(scores_list)

====
